---------------------------- MODULE Spec2Model ----------------------------
(***************************************************************************)
(* A model of the CHIP-8 interpreter core (chip8_core), its flag word      *)
(* (flag_manager), the two timer latches set from interrupt handlers and   *)
(* the play_game front end (chip8.h).                                      *)
(*                                                                         *)
(* The core is one record, `core`, whose fields carry the names of the     *)
(* members of chip8_core and of the file-level timer objects.  Every       *)
(* operation of the source is an operator from a core record to a core     *)
(* record (plus its return value), and an action applies it.               *)
(***************************************************************************)
EXTENDS Integers, Sequences, FiniteSets, TLC

VARIABLES
    core,   \* the chip8_core singleton and the file-level timer objects
    now,    \* what millis() returns
    last,   \* history: the last call of load_rom, start, stop, loop or play_game
    life    \* history: loaded / started since the last stop, what stopped, and
            \* the milliseconds and timer services since FX15 set the delay timer

vars == <<core, now, last, life>>

---------------------------------------------------------------------------
(* Program constants. *)

RAM_SIZE == 4096
FB_SIZE == 256
ROM_BASE == 512
FONT_BASE == 80
FONT_WORDS == 80
BIG_FONT_BASE == 160
STACK_DEPTH == 16
NUM_KEYS == 16
CPU_TIMER_INTERVAL == 2
GPU_TIMER_INTERVAL == 16

HARDWARE_TIMERS == 0
ROM_IS_LOADED == 1
EMULATOR_STATE == 2
INITIALIZED == 3
CPU_CYCLE_DRAW_FLAG == 4
GPU_CYCLE_DRAW_FLAG == 5
SOUND == 6
PAUSE == 7

\* uint16_t FONTSET[80]
FONTSET ==
    << 240, 144, 144, 144, 240,   32,  96,  32,  32, 112,
       240,  16, 240, 128, 240,  240,  16, 240,  16, 240,
       144, 144, 240,  16,  16,  240, 128, 240,  16, 240,
       240, 128, 240, 144, 240,  240,  16,  32,  64,  64,
       240, 144, 240, 144, 240,  240, 144, 240,  16, 240,
       240, 144, 240, 144, 144,  224, 144, 224, 144, 224,
       240, 128, 128, 128, 240,  224, 144, 144, 144, 224,
       240, 128, 240, 128, 240,  240, 128, 240, 128, 128 >>

---------------------------------------------------------------------------
(* Bounds of the model. *)

\* millis() is followed up to this value
MaxTime == 2
\* the main loop may begin this many milliseconds after the clock
MaxPhase == 6

\* milliseconds of polled running that are followed
MaxClock == 24
\* a ROM image handed to load_rom may exceed the 3584 bytes that fit by this
MaxOver == 1

---------------------------------------------------------------------------
(* Fixed-width arithmetic. *)

U8(x) == x % 256
U16(x) == x % 65536

\* currentTime - since on unsigned long: when since is ahead the difference
\* wraps to 2^32 - (since - currentTime), here the largest number at hand
HUGE == 2147483647
elapsed(currentTime, since) ==
    IF currentTime >= since THEN currentTime - since ELSE HUGE

Pow2(n) == 2 ^ n
Bit(a, i) == (a \div Pow2(i)) % 2

RECURSIVE BitAnd(_, _, _)
BitAnd(a, b, n) ==
    IF n = 0 THEN 0
    ELSE (a % 2) * (b % 2) + 2 * BitAnd(a \div 2, b \div 2, n - 1)

RECURSIVE BitOr(_, _, _)
BitOr(a, b, n) ==
    IF n = 0 THEN 0
    ELSE (IF (a % 2) + (b % 2) > 0 THEN 1 ELSE 0) + 2 * BitOr(a \div 2, b \div 2, n - 1)

RECURSIVE BitXor(_, _, _)
BitXor(a, b, n) ==
    IF n = 0 THEN 0
    ELSE ((a + b) % 2) + 2 * BitXor(a \div 2, b \div 2, n - 1)

---------------------------------------------------------------------------
(* flag_manager<uint16_t>: the flags word. *)

\* get: (flags & (1 << position)) != 0
flag_get(c, position) == Bit(c.flags, position) = 1

\* set: fetch_or with the bit mask, or fetch_and with its complement
flag_set(c, position, value) ==
    IF value
    THEN [c EXCEPT !.flags = c.flags + Pow2(position) * (1 - Bit(c.flags, position))]
    ELSE [c EXCEPT !.flags = c.flags - Pow2(position) * Bit(c.flags, position)]

\* a clear_all that drops the running bit only
clear_running_only(c) == flag_set(c, EMULATOR_STATE, FALSE)

flag_clear_all(c) == [c EXCEPT !.flags = 0]

---------------------------------------------------------------------------
(* Memory outside an array.  An access past RAM[4095] is undefined: `g`    *)
(* names what the build put there.  g = Layout is the declaration-order    *)
(* layout of chip8_core, in which DISPLAYBUFFER follows RAM; g in 0..255   *)
(* is unrelated memory holding that byte, on which a write has no effect   *)
(* on the core.  Two such bytes are followed: 0x00, and 0x12, which read   *)
(* as an opcode (1212) is a jump.                                          *)

Layout == -1
UndefBytes == {0, 18}
Garbage == {Layout} \cup UndefBytes

\* RAM is kept as the map of its non-zero bytes: an address outside the map
\* holds 0
NoBytes == [a \in {} |-> 0]

mem_at(R, a) == IF a \in DOMAIN R THEN R[a] ELSE 0

mem_put(R, a, v) ==
    IF v = 0
    THEN [x \in DOMAIN R \ {a} |-> R[x]]
    ELSE [x \in DOMAIN R \cup {a} |-> IF x = a THEN v ELSE R[x]]

\* memcpy(RAM + base, src, n), as far as it stays inside RAM; src is the map
\* of the non-zero bytes of the source buffer
mem_merge(R, kept, set, base, src) ==
    [a \in kept \cup set |-> IF a \in set THEN src[a - base] ELSE R[a]]

mem_copy(R, base, n, src) ==
    mem_merge(R, {a \in DOMAIN R : a < base \/ a >= base + n},
              {base + i : i \in {j \in DOMAIN src : j < n /\ base + j < RAM_SIZE}},
              base, src)

ram_read(c, idx, g) ==
    IF idx < RAM_SIZE THEN mem_at(c.RAM, idx)
    ELSE IF g = Layout /\ idx - RAM_SIZE < FB_SIZE THEN c.DISPLAYBUFFER[idx - RAM_SIZE]
    ELSE IF g = Layout THEN 0
    ELSE g

ram_write(c, idx, v, g) ==
    IF idx < RAM_SIZE THEN [c EXCEPT !.RAM = mem_put(c.RAM, idx, v)]
    ELSE IF g = Layout /\ idx - RAM_SIZE < FB_SIZE
         THEN [c EXCEPT !.DISPLAYBUFFER[idx - RAM_SIZE] = v]
    ELSE c

\* reg.STACK[idx]: past the 16 slots the word read is undefined
stack_read(c, idx, g) ==
    IF idx < STACK_DEPTH THEN c.reg.STACK[idx]
    ELSE IF g = Layout THEN 0
    ELSE g * 257

---------------------------------------------------------------------------
(* A ROM image: its size and the map of its non-zero bytes. *)

rom_byte(rom, i) == mem_at(rom.bytes, i)

\* byte k of the object representation of FONTSET (little-endian uint16_t)
fontset_byte(k) == (FONTSET[(k \div 2) + 1] \div (256 ^ (k % 2))) % 256

fontset_bytes ==
    [k \in {j \in 0 .. 2 * FONT_WORDS - 1 : fontset_byte(j) # 0} |-> fontset_byte(k)]

\* chip8_core::load_fontset: memcpy(RAM + 0x50, FONTSET, sizeof(FONTSET))
load_fontset(c) ==
    [c EXCEPT !.RAM = mem_copy(c.RAM, FONT_BASE, 2 * FONT_WORDS, fontset_bytes)]

\* where the flags word lies past the end of RAM in the declaration-order
\* layout: after DISPLAYBUFFER, dirty_flags[32][8], the two unsigned long
\* cycle stamps, key_states and reg (PC, INDEX, STACK, SP, the two timers,
\* V[16] and one byte of padding)
FLAG_OFFSET ==
    FB_SIZE + 32 * 8 + 4 + 4 + NUM_KEYS + (2 + 2 + 2 * STACK_DEPTH + 3 + 16 + 1)

\* memcpy(RAM + 0x200, rom, rom_size).  Past RAM[4095] the copy runs, in the
\* declaration-order layout, through the members that follow RAM, up to the
\* flags word; `over` is the number of bytes written past RAM, and byte o
\* past RAM takes the image's byte if the copy reaches it.
copy_rom(c, rom, rom_size, g) ==
    LET inRam == [c EXCEPT !.RAM = mem_copy(c.RAM, ROM_BASE, rom_size, rom.bytes)]
        over == ROM_BASE + rom_size - RAM_SIZE
        put(o, old) == IF o < over THEN rom_byte(rom, RAM_SIZE + o - ROM_BASE) ELSE old
        put2(o, old) == put(o, old % 256) + 256 * put(o + 1, (old \div 256) % 256)
        put4(o, old) == put2(o, old % 65536) + 65536 * put2(o + 2, (old \div 65536) % 65536)
        dirtyAt == FB_SIZE
        cpuAt == dirtyAt + 32 * 8
        keysAt == cpuAt + 4 + 4
        regAt == keysAt + NUM_KEYS
        spAt == regAt + 2 + 2 + 2 * STACK_DEPTH
    IN  IF g = Layout /\ over > 0
        THEN [inRam EXCEPT
                !.DISPLAYBUFFER = [b \in 0 .. FB_SIZE - 1 |-> put(b, c.DISPLAYBUFFER[b])],
                !.dirty_flags = [y \in 0 .. 31 |-> [x \in 0 .. 7 |->
                                    put(dirtyAt + 8 * y + x, c.dirty_flags[y][x])]],
                !.last_CPU_cycle = put4(cpuAt, c.last_CPU_cycle),
                !.last_GPU_cycle = put4(cpuAt + 4, c.last_GPU_cycle),
                !.key_states = [k \in 0 .. NUM_KEYS - 1 |-> put(keysAt + k, c.key_states[k])],
                !.reg = [PC |-> put2(regAt, c.reg.PC),
                         INDEX |-> put2(regAt + 2, c.reg.INDEX),
                         STACK |-> [i \in 0 .. STACK_DEPTH - 1 |->
                                       put2(regAt + 4 + 2 * i, c.reg.STACK[i])],
                         SP |-> put(spAt, c.reg.SP),
                         DELAYTIMER |-> put(spAt + 1, c.reg.DELAYTIMER),
                         SOUNDTIMER |-> put(spAt + 2, c.reg.SOUNDTIMER),
                         V |-> [i \in 0 .. 15 |-> put(spAt + 3 + i, c.reg.V[i])]],
                !.flags = put2(FLAG_OFFSET, c.flags)]
        ELSE inRam

\* chip8_core::load_rom
load_rom(c, rom, rom_size, g) ==
    LET zeroed == [c EXCEPT !.RAM = NoBytes]
        fonted == load_fontset(zeroed)
        copied == copy_rom(fonted, rom, rom_size, g)
    IN  flag_set(copied, ROM_IS_LOADED, TRUE)

---------------------------------------------------------------------------
(* Hardware timers. *)

\* chip8_core::ht_start
ht_start(c) == [c EXCEPT !.timer0 = TRUE, !.timer1 = TRUE]

\* chip8_core::ht_stop
ht_stop(c) ==
    [c EXCEPT !.timer0 = FALSE, !.timer1 = FALSE,
              !.timer0_flag = FALSE, !.timer1_flag = FALSE]

\* an ht_stop that resets the two latches first and ends the timers after
ht_stop_latches_first(c, k) ==
    CASE k = 0 -> [c EXCEPT !.timer0_flag = FALSE]
      [] k = 1 -> [c EXCEPT !.timer1_flag = FALSE]
      [] k = 2 -> [c EXCEPT !.timer0 = FALSE]
      [] OTHER -> [c EXCEPT !.timer1 = FALSE]

\* chip8_core::ht_stop, statement k of its four: timerEnd(timer0),
\* timerEnd(timer1), timer0_flag.store(false), timer1_flag.store(false)
ht_stop_step(c, k) ==
    CASE k = 0 -> [c EXCEPT !.timer0 = FALSE]
      [] k = 1 -> [c EXCEPT !.timer1 = FALSE]
      [] k = 2 -> [c EXCEPT !.timer0_flag = FALSE]
      [] OTHER -> [c EXCEPT !.timer1_flag = FALSE]

\* chip8_core::enable_hardware_timers
enable_hardware_timers(c) == flag_set(c, HARDWARE_TIMERS, TRUE)

\* chip8_core::initialize
initialize(c) ==
    [c EXCEPT
        !.reg = [PC |-> ROM_BASE, INDEX |-> 0,
                 STACK |-> [i \in 0 .. STACK_DEPTH - 1 |-> 0],
                 SP |-> 0, DELAYTIMER |-> 0, SOUNDTIMER |-> 0,
                 V |-> [i \in 0 .. 15 |-> 0]],
        !.DISPLAYBUFFER = [b \in 0 .. FB_SIZE - 1 |-> 0],
        !.dirty_flags = [y \in 0 .. 31 |-> [x \in 0 .. 7 |-> 1]],
        !.last_CPU_cycle = 0,
        !.last_GPU_cycle = 0]

\* chip8_core::is_running
is_running(c) == flag_get(c, EMULATOR_STATE)

\* chip8_core::is_init_and_ready
is_init_and_ready(c) == flag_get(c, INITIALIZED)

\* start: if (flag.get(HARDWARE_TIMERS)) ht_start()
start_timers(c) == IF flag_get(c, HARDWARE_TIMERS) THEN ht_start(c) ELSE c

\* a start that does not look at the running state
start_unguarded(c) ==
    IF flag_get(c, ROM_IS_LOADED)
    THEN [core |-> start_timers(flag_set(initialize(flag_set(c, EMULATOR_STATE, TRUE)),
                                         INITIALIZED, TRUE)),
          ret |-> TRUE]
    ELSE [core |-> c, ret |-> FALSE]

\* chip8_core::start: the core afterwards and the value returned
start(c) ==
    LET rom_is_loaded == flag_get(c, ROM_IS_LOADED)
        state == flag_get(c, EMULATOR_STATE)
    IN  IF rom_is_loaded /\ ~state
        THEN [core |-> start_timers(flag_set(initialize(flag_set(c, EMULATOR_STATE, TRUE)),
                                             INITIALIZED, TRUE)),
              ret |-> TRUE]
        ELSE [core |-> c, ret |-> FALSE]

\* a stop that leaves the loaded image startable
stop_keeps_rom(c) ==
    IF flag_get(c, EMULATOR_STATE)
    THEN [core |-> flag_set(flag_clear_all(ht_stop(c)), ROM_IS_LOADED, TRUE), ret |-> TRUE]
    ELSE [core |-> c, ret |-> FALSE]

\* a stop that does not look at the running state
stop_unguarded(c) == [core |-> flag_clear_all(ht_stop(c)), ret |-> TRUE]

\* chip8_core::stop: the core afterwards and the value returned
stop(c) ==
    IF flag_get(c, EMULATOR_STATE)
    THEN [core |-> flag_clear_all(ht_stop(c)), ret |-> TRUE]
    ELSE [core |-> c, ret |-> FALSE]

---------------------------------------------------------------------------
(* Keypad. *)

\* chip8_core::set_key_state
set_key_state(c, key, is_pressed) ==
    IF key < NUM_KEYS
    THEN [c EXCEPT !.key_states[key] = IF is_pressed THEN 1 ELSE 0]
    ELSE c

\* chip8_core::is_key_pressed
is_key_pressed(c, key) == key < NUM_KEYS /\ c.key_states[key] = 1

\* a scan of the keypad that returns the last pressed key it meets
get_pressed_key_highest(c) ==
    LET pressed == {k \in 0 .. NUM_KEYS - 1 : c.key_states[k] = 1}
    IN  IF pressed = {} THEN -1
        ELSE CHOOSE k \in pressed : \A j \in pressed : k >= j

\* chip8_core::get_pressed_key
get_pressed_key(c) ==
    LET pressed == {k \in 0 .. NUM_KEYS - 1 : c.key_states[k] = 1}
    IN  IF pressed = {} THEN -1
        ELSE CHOOSE k \in pressed : \A j \in pressed : k <= j

---------------------------------------------------------------------------
(* chip8_core::execute.  Each part returns the core afterwards, the        *)
(* highest RAM index it used (`hi`) and the stack slot it used (`stk`, -1  *)
(* when none).                                                             *)

Max(a, b) == IF a >= b THEN a ELSE b

Res(c, hi, stk) == [core |-> c, hi |-> hi, stk |-> stk]

\* reg.PC += n
pc_add(c, n) == [c EXCEPT !.reg.PC = U16(c.reg.PC + n)]

\* the skip instructions: PC += 4 when taken, PC += 2 otherwise
skip_if(c, taken) == IF taken THEN pc_add(c, 4) ELSE pc_add(c, 2)

\* the opcode at PC: (RAM[reg.PC] << 8) | RAM[reg.PC + 1]
fetch(c, g) == ram_read(c, c.reg.PC, g) * 256 + ram_read(c, c.reg.PC + 1, g)

\* a case 0x0000 whose 00E0 marks the display dirty without zeroing it
exec_0_marks_only(c, OPCODE, g) ==
    LET NN == OPCODE % 256
    IN  CASE NN = 224 ->
                Res(pc_add(flag_set(
                        [c EXCEPT !.dirty_flags = [y \in 0 .. 31 |-> [x \in 0 .. 7 |-> 1]]],
                        CPU_CYCLE_DRAW_FLAG, TRUE), 2), 0, -1)
          [] NN = 238 ->
                LET sp == U8(c.reg.SP - 1)
                    c1 == [c EXCEPT !.reg.SP = sp]
                IN  Res([c1 EXCEPT !.reg.PC = stack_read(c1, sp, g)], 0, sp)
          [] NN = 253 ->
                Res(stop(c).core, 0, -1)
          [] OTHER -> Res(c, 0, -1)

\* case 0x0000
exec_0(c, OPCODE, g) ==
    LET NN == OPCODE % 256
    IN  CASE NN = 224 ->   \* 00E0
                Res(pc_add(flag_set(
                        [c EXCEPT !.DISPLAYBUFFER = [b \in 0 .. FB_SIZE - 1 |-> 0],
                                  !.dirty_flags = [y \in 0 .. 31 |-> [x \in 0 .. 7 |-> 1]]],
                        CPU_CYCLE_DRAW_FLAG, TRUE), 2), 0, -1)
          [] NN = 238 ->   \* 00EE: reg.PC = reg.STACK[--reg.SP]
                LET sp == U8(c.reg.SP - 1)
                    c1 == [c EXCEPT !.reg.SP = sp]
                IN  Res([c1 EXCEPT !.reg.PC = stack_read(c1, sp, g)], 0, sp)
          [] NN = 253 ->   \* 00FD
                Res(stop(c).core, 0, -1)
          [] OTHER -> Res(c, 0, -1)

\* case 0x2000
exec_2(c, OPCODE) ==
    IF c.reg.SP < STACK_DEPTH
    THEN Res([c EXCEPT !.reg.STACK[c.reg.SP] = U16(c.reg.PC + 2),
                       !.reg.SP = c.reg.SP + 1,
                       !.reg.PC = OPCODE % 4096], 0, c.reg.SP)
    ELSE Res(pc_add(c, 2), 0, -1)

\* case 0x8000
exec_8(c, OPCODE) ==
    LET X == (OPCODE \div 256) % 16
        Y == (OPCODE \div 16) % 16
        N == OPCODE % 16
        V == c.reg.V
        setV(v) == pc_add([c EXCEPT !.reg.V = v], 2)
    IN  CASE N = 0 -> setV([V EXCEPT ![X] = V[Y]])
          [] N = 1 -> setV([V EXCEPT ![X] = BitOr(V[X], V[Y], 8)])
          [] N = 2 -> setV([V EXCEPT ![X] = BitAnd(V[X], V[Y], 8)])
          [] N = 3 -> setV([V EXCEPT ![X] = BitXor(V[X], V[Y], 8)])
          [] N = 4 -> LET sum == V[X] + V[Y]
                          v1 == [V EXCEPT ![15] = IF sum > 255 THEN 1 ELSE 0]
                      IN  setV([v1 EXCEPT ![X] = sum % 256])
          [] N = 5 -> LET v1 == [V EXCEPT ![15] = IF V[X] > V[Y] THEN 1 ELSE 0]
                      IN  setV([v1 EXCEPT ![X] = U8(v1[X] - v1[Y])])
          [] N = 6 -> LET v1 == [V EXCEPT ![15] = V[X] % 2]
                      IN  setV([v1 EXCEPT ![X] = v1[X] \div 2])
          [] N = 7 -> LET v1 == [V EXCEPT ![15] = IF V[Y] > V[X] THEN 1 ELSE 0]
                      IN  setV([v1 EXCEPT ![X] = U8(v1[Y] - v1[X])])
          [] N = 14 -> LET v1 == [V EXCEPT ![15] = IF V[X] >= 128 THEN 1 ELSE 0]
                       IN  setV([v1 EXCEPT ![X] = U8(v1[X] * 2)])
          [] OTHER -> pc_add(c, 2)

\* a draw that sets the sprite's pixels instead of toggling them
RECURSIVE draw_row_sets(_, _, _, _, _)
draw_row_sets(c, pixel, X, y_coord, xline) ==
    IF xline >= 8 THEN c
    ELSE IF Bit(pixel, 7 - xline) = 1
    THEN LET x_coord == (X + xline) % 64
             bit_index == x_coord + y_coord * 64
             byte == c.DISPLAYBUFFER[bit_index \div 8]
             bit == 7 - (bit_index % 8)
             hit == Bit(byte, bit) = 1
             c1 == IF hit THEN [c EXCEPT !.reg.V[15] = 1] ELSE c
             c2 == [c1 EXCEPT !.DISPLAYBUFFER[bit_index \div 8] =
                                 IF hit THEN byte ELSE byte + Pow2(bit),
                              !.dirty_flags[y_coord][x_coord \div 8] = 1]
         IN  draw_row_sets(c2, pixel, X, y_coord, xline + 1)
    ELSE draw_row_sets(c, pixel, X, y_coord, xline + 1)

\* DXYN, the inner loop: the bits xline..7 of one sprite row
RECURSIVE draw_row(_, _, _, _, _)
draw_row(c, pixel, X, y_coord, xline) ==
    IF xline >= 8 THEN c
    ELSE IF Bit(pixel, 7 - xline) = 1
    THEN LET x_coord == (X + xline) % 64
             bit_index == x_coord + y_coord * 64
             byte == c.DISPLAYBUFFER[bit_index \div 8]
             bit == 7 - (bit_index % 8)
             hit == Bit(byte, bit) = 1
             c1 == IF hit THEN [c EXCEPT !.reg.V[15] = 1] ELSE c
             c2 == [c1 EXCEPT !.DISPLAYBUFFER[bit_index \div 8] =
                                 IF hit THEN byte - Pow2(bit) ELSE byte + Pow2(bit),
                              !.dirty_flags[y_coord][x_coord \div 8] = 1]
         IN  draw_row(c2, pixel, X, y_coord, xline + 1)
    ELSE draw_row(c, pixel, X, y_coord, xline + 1)

\* a draw that puts the sprite rows one above the other, upwards
RECURSIVE draw_rows_upwards(_, _, _, _, _, _)
draw_rows_upwards(c, X, Y, height, yline, g) ==
    IF yline >= height THEN c
    ELSE LET pixel == ram_read(c, c.reg.INDEX + yline, g)
             y_coord == (Y + 32 - yline) % 32
         IN  draw_rows_upwards(draw_row(c, pixel, X, y_coord, 0), X, Y, height, yline + 1, g)

\* DXYN, the outer loop: the sprite rows yline..height-1
RECURSIVE draw_rows(_, _, _, _, _, _)
draw_rows(c, X, Y, height, yline, g) ==
    IF yline >= height THEN c
    ELSE LET pixel == ram_read(c, c.reg.INDEX + yline, g)
             y_coord == (Y + yline) % 32
         IN  draw_rows(draw_row(c, pixel, X, y_coord, 0), X, Y, height, yline + 1, g)

\* case 0xD000
exec_D(c, OPCODE, g) ==
    LET X == c.reg.V[(OPCODE \div 256) % 16]
        Y == c.reg.V[(OPCODE \div 16) % 16]
        height == OPCODE % 16
        c1 == [c EXCEPT !.reg.V[15] = 0]
        c2 == draw_rows(c1, X, Y, height, 0, g)
    IN  Res(flag_set(pc_add(c2, 2), CPU_CYCLE_DRAW_FLAG, TRUE),
            IF height > 0 THEN c.reg.INDEX + height - 1 ELSE 0, -1)

\* case 0xE000
exec_E(c, OPCODE) ==
    LET X == (OPCODE \div 256) % 16
        key == c.reg.V[X]
        NN == OPCODE % 256
    IN  CASE NN = 158 -> skip_if(c, is_key_pressed(c, key))
          [] NN = 161 -> skip_if(c, ~is_key_pressed(c, key))
          [] OTHER -> pc_add(c, 2)

\* FX55: RAM[reg.INDEX + reg1] = reg.V[reg1] for reg1 = r..X
RECURSIVE store_regs(_, _, _, _)
store_regs(c, X, r, g) ==
    IF r > X THEN c
    ELSE store_regs(ram_write(c, c.reg.INDEX + r, c.reg.V[r], g), X, r + 1, g)

\* an FX65 that stops before V[X]
RECURSIVE load_regs_short(_, _, _, _)
load_regs_short(c, X, r, g) ==
    IF r >= X THEN c
    ELSE load_regs_short([c EXCEPT !.reg.V[r] = ram_read(c, c.reg.INDEX + r, g)], X, r + 1, g)

\* FX65: reg.V[reg1] = RAM[reg.INDEX + reg1] for reg1 = r..X
RECURSIVE load_regs(_, _, _, _)
load_regs(c, X, r, g) ==
    IF r > X THEN c
    ELSE load_regs([c EXCEPT !.reg.V[r] = ram_read(c, c.reg.INDEX + r, g)], X, r + 1, g)

\* an FX1E that keeps the carry in reg.INDEX
index_unmasked(c) ==
    pc_add([c EXCEPT !.reg.V[15] = IF c.reg.INDEX > 4095 THEN 1 ELSE 0], 2)

\* FX1E, after reg.INDEX += reg.V[X]
index_carry(c) ==
    pc_add([c EXCEPT !.reg.V[15] = IF c.reg.INDEX > 4095 THEN 1 ELSE 0,
                     !.reg.INDEX = BitAnd(c.reg.INDEX, 4095, 16)], 2)

\* case 0x1E of case 0xF000
op_FX1E(c, X) == index_carry([c EXCEPT !.reg.INDEX = U16(c.reg.INDEX + c.reg.V[X])])

\* case 0xF000
exec_F(c, OPCODE, g) ==
    LET X == (OPCODE \div 256) % 16
        NN == OPCODE % 256
        V == c.reg.V
        I == c.reg.INDEX
    IN  CASE NN = 7 -> Res(pc_add([c EXCEPT !.reg.V[X] = c.reg.DELAYTIMER], 2), 0, -1)
          [] NN = 21 -> Res(pc_add([c EXCEPT !.reg.DELAYTIMER = V[X]], 2), 0, -1)
          [] NN = 24 -> Res(pc_add([c EXCEPT !.reg.SOUNDTIMER = V[X]], 2), 0, -1)
          [] NN = 10 ->
                LET pressed_key == get_pressed_key(c)
                IN  IF pressed_key # -1
                    THEN Res(pc_add([c EXCEPT !.reg.V[X] = pressed_key], 2), 0, -1)
                    ELSE Res(c, 0, -1)
          [] NN = 30 -> Res(op_FX1E(c, X), 0, -1)
          [] NN = 41 -> Res(pc_add([c EXCEPT !.reg.INDEX = U16(FONT_BASE + V[X] * 5)], 2), 0, -1)
          [] NN = 48 -> Res(pc_add([c EXCEPT !.reg.INDEX = U16(BIG_FONT_BASE + V[X] * 10)], 2), 0, -1)
          [] NN = 51 ->
                LET c1 == ram_write(c, I, V[X] \div 100, g)
                    c2 == ram_write(c1, I + 1, (V[X] \div 10) % 10, g)
                    c3 == ram_write(c2, I + 2, V[X] % 10, g)
                IN  Res(pc_add(c3, 2), I + 2, -1)
          [] NN = 85 -> Res(pc_add(store_regs(c, X, 0, g), 2), I + X, -1)
          [] NN = 101 -> Res(pc_add(load_regs(c, X, 0, g), 2), I + X, -1)
          [] OTHER -> Res(pc_add(c, 2), 0, -1)

\* execute, after the fetch
decode(c, OPCODE, rnd, g) ==
    LET op == OPCODE \div 4096
        X == (OPCODE \div 256) % 16
        Y == (OPCODE \div 16) % 16
        NN == OPCODE % 256
        NNN == OPCODE % 4096
        V == c.reg.V
        r == CASE op = 0 -> exec_0(c, OPCODE, g)
               [] op = 1 -> Res([c EXCEPT !.reg.PC = NNN], 0, -1)
               [] op = 2 -> exec_2(c, OPCODE)
               [] op = 3 -> Res(skip_if(c, V[X] = NN), 0, -1)
               [] op = 4 -> Res(skip_if(c, V[X] # NN), 0, -1)
               [] op = 5 -> Res(skip_if(c, V[X] = V[Y]), 0, -1)
               [] op = 6 -> Res(pc_add([c EXCEPT !.reg.V[X] = NN], 2), 0, -1)
               [] op = 7 -> Res(pc_add([c EXCEPT !.reg.V[X] = U8(V[X] + NN)], 2), 0, -1)
               [] op = 8 -> Res(exec_8(c, OPCODE), 0, -1)
               [] op = 9 -> Res(skip_if(c, V[X] # V[Y]), 0, -1)
               [] op = 10 -> Res(pc_add([c EXCEPT !.reg.INDEX = NNN], 2), 0, -1)
               [] op = 11 -> Res([c EXCEPT !.reg.PC = U16(NNN + V[0])], 0, -1)
               [] op = 12 -> Res(pc_add([c EXCEPT !.reg.V[X] = BitAnd(rnd, NN, 8)], 2), 0, -1)
               [] op = 13 -> exec_D(c, OPCODE, g)
               [] op = 14 -> Res(exec_E(c, OPCODE), 0, -1)
               [] OTHER -> exec_F(c, OPCODE, g)
    IN  r

\* what execute() did: the core afterwards, the opcode, the highest RAM index
\* used (the fetch reads RAM[pc] and RAM[pc + 1]) and the stack slot used
executed(r, OPCODE, pc) ==
    [core |-> r.core, opcode |-> OPCODE, hi |-> Max(pc + 1, r.hi), stk |-> r.stk]

execute_op(c, OPCODE, rnd, g) == executed(decode(c, OPCODE, rnd, g), OPCODE, c.reg.PC)

\* chip8_core::execute; rnd is what esp_random() & 0xFF gives
execute(c, rnd, g) == execute_op(c, fetch(c, g), rnd, g)

---------------------------------------------------------------------------
(* The scheduler.  A cycle returns the core afterwards and, as history,    *)
(* whether it ran (`exec`, `tick`) and what execute() reported.            *)

\* cpu_cycle after execute(): last_CPU_cycle = currentTime, or the latch reset
cpu_done(e, t) ==
    [core |-> IF ~flag_get(e.core, HARDWARE_TIMERS)
              THEN [e.core EXCEPT !.last_CPU_cycle = t]
              ELSE [e.core EXCEPT !.timer0_flag = FALSE],
     exec |-> 1, opcode |-> e.opcode, hi |-> e.hi, stk |-> e.stk]

\* chip8_core::cpu_cycle, with currentTime = t
cpu_cycle(c, t, rnd, g) ==
    IF (elapsed(t, c.last_CPU_cycle) >= CPU_TIMER_INTERVAL /\ ~flag_get(c, HARDWARE_TIMERS))
       \/ (flag_get(c, HARDWARE_TIMERS) /\ c.timer0_flag)
    THEN cpu_done(execute(c, rnd, g), t)
    ELSE [core |-> c, exec |-> 0, opcode |-> 0, hi |-> 0, stk |-> -1]

\* a service that takes the CPU's draw flag down without raising the GPU's
promote_drops(c) == flag_set(c, CPU_CYCLE_DRAW_FLAG, FALSE)

\* a promotion that leaves the CPU's draw flag raised
promote_keeps_pending(c) ==
    IF flag_get(c, CPU_CYCLE_DRAW_FLAG) THEN flag_set(c, GPU_CYCLE_DRAW_FLAG, TRUE) ELSE c

\* gpu_cycle: the draw flag raised by the CPU becomes the GPU draw flag
promote_draw(c) ==
    IF flag_get(c, CPU_CYCLE_DRAW_FLAG)
    THEN flag_set(flag_set(c, CPU_CYCLE_DRAW_FLAG, FALSE), GPU_CYCLE_DRAW_FLAG, TRUE)
    ELSE c

\* a delay timer that is decremented at 0 as well
dec_delay_wraps(c) == [c EXCEPT !.reg.DELAYTIMER = U8(c.reg.DELAYTIMER - 1)]

\* gpu_cycle: the delay timer
dec_delay(c) ==
    IF c.reg.DELAYTIMER > 0
    THEN [c EXCEPT !.reg.DELAYTIMER = c.reg.DELAYTIMER - 1]
    ELSE c

\* gpu_cycle: if (reg.SOUNDTIMER == 0) flag.set(SOUND, false)
sound_off_at_zero(c) == IF c.reg.SOUNDTIMER = 0 THEN flag_set(c, SOUND, FALSE) ELSE c

\* gpu_cycle: the sound timer and the SOUND flag
dec_sound(c) ==
    IF c.reg.SOUNDTIMER > 0
    THEN sound_off_at_zero([flag_set(c, SOUND, TRUE) EXCEPT
                                !.reg.SOUNDTIMER = c.reg.SOUNDTIMER - 1])
    ELSE c

\* the timer service: the body of gpu_cycle's if, before the time stamp
timer_service(c) == dec_sound(dec_delay(promote_draw(c)))

\* a service stamped with the time it was due, not the time it ran
gpu_done_catch_up(c, t) ==
    [core |-> IF ~flag_get(c, HARDWARE_TIMERS)
              THEN [c EXCEPT !.last_GPU_cycle = c.last_GPU_cycle + GPU_TIMER_INTERVAL]
              ELSE [c EXCEPT !.timer1_flag = FALSE],
     tick |-> 1]

\* gpu_cycle after the service: last_GPU_cycle = currentTime, or the latch reset
gpu_done(c, t) ==
    [core |-> IF ~flag_get(c, HARDWARE_TIMERS)
              THEN [c EXCEPT !.last_GPU_cycle = t]
              ELSE [c EXCEPT !.timer1_flag = FALSE],
     tick |-> 1]

\* chip8_core::gpu_cycle, with currentTime = t
gpu_cycle(c, t) ==
    IF (elapsed(t, c.last_GPU_cycle) >= GPU_TIMER_INTERVAL /\ ~flag_get(c, HARDWARE_TIMERS))
       \/ (flag_get(c, HARDWARE_TIMERS) /\ c.timer1_flag)
    THEN gpu_done(timer_service(c), t)
    ELSE [core |-> c, tick |-> 0]

\* what one loop() did: the core after both cycles and their history
looped(cpu, gpu) ==
    [core |-> gpu.core, exec |-> cpu.exec, opcode |-> cpu.opcode,
     hi |-> cpu.hi, stk |-> cpu.stk, tick |-> gpu.tick]

\* loop: gpu_cycle() follows cpu_cycle()
then_gpu(cpu, t) == looped(cpu, gpu_cycle(cpu.core, t))

\* a loop whose timer service comes before its instruction
loop_gpu_first(c, t, rnd, g) ==
    IF flag_get(c, INITIALIZED)
    THEN LET gpu == gpu_cycle(c, t)
             cpu == cpu_cycle(gpu.core, t, rnd, g)
         IN  [core |-> cpu.core, exec |-> cpu.exec, opcode |-> cpu.opcode,
              hi |-> cpu.hi, stk |-> cpu.stk, tick |-> gpu.tick]
    ELSE [core |-> c, exec |-> 0, opcode |-> 0, hi |-> 0, stk |-> -1, tick |-> 0]

\* chip8_core::loop
loop(c, t, rnd, g) ==
    IF flag_get(c, INITIALIZED)
    THEN then_gpu(cpu_cycle(c, t, rnd, g), t)
    ELSE [core |-> c, exec |-> 0, opcode |-> 0, hi |-> 0, stk |-> -1, tick |-> 0]

\* chip8_core::need_to_draw
need_to_draw(c) == flag_get(c, GPU_CYCLE_DRAW_FLAG)

\* chip8_core::reset_draw
reset_draw(c) == flag_set(c, GPU_CYCLE_DRAW_FLAG, FALSE)

\* chip8_core::sound
sound(c) == flag_get(c, SOUND)

NoRun == [exec |-> 0, opcode |-> 0, hi |-> 0, stk |-> -1, tick |-> 0]

\* play_game: if (enable_hwt) enable_hardware_timers()
play_enable(c, enable_hwt) == IF enable_hwt THEN enable_hardware_timers(c) ELSE c

\* play_game, first branch: return false if start() fails, true otherwise
play_started(s) ==
    [core |-> s.core, ret |-> s.ret, loaded |-> TRUE, started |-> s.ret, run |-> NoRun]

\* play_game, second branch: loop() was called, return true
play_looped(l) ==
    [core |-> l.core, ret |-> TRUE, loaded |-> FALSE, started |-> FALSE,
     run |-> [exec |-> l.exec, opcode |-> l.opcode, hi |-> l.hi,
              stk |-> l.stk, tick |-> l.tick]]

\* chip8::play_game without a loop callback and without the OLED back end
play_game(c, rom, rom_size, enable_hwt, t, rnd, g) ==
    IF ~is_init_and_ready(c)
    THEN play_started(start(play_enable(load_rom(c, rom, rom_size, g), enable_hwt)))
    ELSE IF is_running(c)
    THEN play_looped(loop(c, t, rnd, g))
    ELSE [core |-> c, ret |-> FALSE, loaded |-> FALSE, started |-> FALSE, run |-> NoRun]

---------------------------------------------------------------------------
(* The inputs the model draws from. *)

\* the largest image that fits between 0x200 and the end of RAM
MaxRomSize == RAM_SIZE - ROM_BASE

\* the image of `size` bytes that is `prog`, then zeros, then `tail` as its
\* last bytes
Image(prog, tail, size) ==
    LET at(i) == IF i < Len(prog) THEN prog[i + 1]
                 ELSE IF i >= size - Len(tail) THEN tail[i - (size - Len(tail)) + 1]
                 ELSE 0
        used == (0 .. Len(prog) - 1) \cup (size - Len(tail) .. size - 1)
    IN  [size |-> size, bytes |-> [i \in {j \in used : at(j) # 0} |-> at(i)]]

\* what esp_random() & 0xFF may give
RandBytes == {0, 1, 255}

\* keys handed to set_key_state: a key of the pad and an index off it
Keys == {1, 16}

\* images for the lifecycle: a short program that draws and beeps, and
\* a halting program in images of MaxRomSize bytes and more
LifeImages ==
    { Image(<<96, 2, 240, 24, 208, 1, 18, 6>>, <<>>, 8) }      \* 6002 F018 D001 1206
    \cup { Image(<<0, 253>>, <<170, 171, 172, 173>>, MaxRomSize + k) : k \in 0 .. MaxOver }
      \* 00FD 00 .. 00 AA AB AC AD

\* guest programs for the interpreter
ExecImages ==
    { Image(<<34, 0, 0, 238>>, <<>>, 4),                         \* 2200 00EE
      Image(<<0, 238>>, <<>>, 2),                                \* 00EE
      Image(<<31, 255>>, <<>>, 2),                               \* 1FFF
      Image(<<96, 255, 191, 255>>, <<>>, 4),                     \* 60FF BFFF
      \* AFFE 6060 6100 F155 1FFE: writes 6000 at 0xFFE and jumps there
      Image(<<175, 254, 96, 96, 97, 0, 241, 85, 31, 254>>, <<>>, 10),
      Image(<<175, 255, 96, 1, 240, 30>>, <<>>, 6),              \* AFFF 6001 F01E
      Image(<<175, 255, 111, 1, 255, 30>>, <<>>, 6),             \* AFFF 6F01 FF1E
      Image(<<175, 255, 192, 255, 240, 30>>, <<>>, 6),           \* AFFF C0FF F01E
      Image(<<192, 255, 240, 41, 240, 48>>, <<>>, 6),            \* C0FF F029 F030
      \* AFFF 6012 6134 F155 F165 F033 D012
      Image(<<175, 255, 96, 18, 97, 52, 241, 85, 241, 101, 240, 51, 208, 18>>, <<>>, 14),
      Image(<<162, 0, 240, 10, 208, 2, 0, 253>>, <<>>, 8),       \* A200 F00A D002 00FD
      Image(<<128, 8, 224, 255, 240, 255>>, <<>>, 6),            \* 8008 E0FF F0FF
      Image(<<34, 4, 0, 0, 0, 238>>, <<>>, 6),                   \* 2204 0000 00EE
      \* 6002 F018 F118 1206: sound timer 2, then 0 once it sounds
      Image(<<96, 2, 240, 24, 241, 24, 18, 6>>, <<>>, 8) }

---------------------------------------------------------------------------
(* The state after construction: the singleton and the timer objects have  *)
(* static storage and are zero-initialised.                                *)

Idle == NoRun

Call(op, ret, size, run) ==
    [op |-> op, ret |-> ret, size |-> size, exec |-> run.exec, opcode |-> run.opcode,
     hi |-> run.hi, stk |-> run.stk, tick |-> run.tick]

Init ==
    /\ core = [flags |-> 0,
               RAM |-> NoBytes,
               DISPLAYBUFFER |-> [b \in 0 .. FB_SIZE - 1 |-> 0],
               dirty_flags |-> [y \in 0 .. 31 |-> [x \in 0 .. 7 |-> 0]],
               last_CPU_cycle |-> 0,
               last_GPU_cycle |-> 0,
               key_states |-> [k \in 0 .. NUM_KEYS - 1 |-> 0],
               reg |-> [PC |-> 0, INDEX |-> 0,
                        STACK |-> [i \in 0 .. STACK_DEPTH - 1 |-> 0],
                        SP |-> 0, DELAYTIMER |-> 0, SOUNDTIMER |-> 0,
                        V |-> [i \in 0 .. 15 |-> 0]],
               timer0 |-> FALSE, timer1 |-> FALSE,
               timer0_flag |-> FALSE, timer1_flag |-> FALSE]
    /\ now = 0
    /\ last = Call("none", FALSE, 0, Idle)
    /\ life = [loaded |-> FALSE, started |-> FALSE, by |-> "none",
               window |-> -1, services |-> 0,
               stopping |-> 0, raced |-> FALSE,
               drawn |-> [opcode |-> 0, I |-> 0, V |-> <<>>, fb |-> <<>>],
               stored |-> [opcode |-> 0, I |-> 0, V |-> <<>>]]

\* history after a stop took effect, by stop() or by the guest's 00FD
AfterStop(by) == [life EXCEPT !.loaded = FALSE, !.started = FALSE, !.by = by]

\* the guest halted in this call: execute() ran 00FD on a running core
Halted(c, run) ==
    run.exec = 1 /\ run.opcode \div 4096 = 0 /\ run.opcode % 256 = 253 /\ is_running(c)

\* An input that a call does not read is fixed.  The random byte is read by
\* CXNN only; memory outside an array is read or written only by a fetch at
\* the top of RAM, by an instruction using RAM[I .. I + 15] there, by a return
\* on an empty or overrun stack, and by load_rom of an image that does not fit.
RandFor(c) == IF mem_at(c.RAM, c.reg.PC) \div 16 = 12 THEN RandBytes ELSE {0}

GarbageFor(c) ==
    IF \/ c.reg.PC + 1 >= RAM_SIZE
       \/ c.reg.INDEX + 15 >= RAM_SIZE
       \/ c.reg.SP = 0
       \/ c.reg.SP > STACK_DEPTH
    THEN Garbage ELSE {Layout}

GarbageForImage(rom) == IF ROM_BASE + rom.size > RAM_SIZE THEN {Layout, 0} ELSE {Layout}

\* play_game reads rom and enable_hwt only when the core is not initialized
ImagesFor(c, images) ==
    IF is_init_and_ready(c) THEN {CHOOSE rom \in images : TRUE} ELSE images

HwtFor(c) == IF is_init_and_ready(c) THEN {FALSE} ELSE BOOLEAN

---------------------------------------------------------------------------
(* The public operations of chip8_core as actions. *)

LoadRomFrom(images) ==
    \E rom \in images : \E g \in GarbageForImage(rom) :
        /\ last' = Call("load_rom", FALSE, rom.size,
                        [Idle EXCEPT !.hi = Max(RAM_SIZE, ROM_BASE + rom.size) - 1])
        /\ life' = [life EXCEPT !.loaded = TRUE, !.by = "none"]
        /\ core' = load_rom(core, rom, rom.size, g)
        /\ UNCHANGED now

LoadRom == LoadRomFrom(LifeImages)

Started(s) ==
    /\ core' = s.core
    /\ last' = Call("start", s.ret, 0, Idle)
    /\ life' = IF s.ret THEN [life EXCEPT !.started = TRUE] ELSE life
    /\ UNCHANGED now

Start == Started(start(core))

Stopped(s) ==
    /\ core' = s.core
    /\ last' = Call("stop", s.ret, 0, Idle)
    /\ life' = IF s.ret THEN AfterStop("stop") ELSE life
    /\ UNCHANGED now

Stop == Stopped(stop(core))

Looped(l) ==
    /\ core' = l.core
    /\ last' = Call("loop", FALSE, 0, l)
    /\ life' = IF Halted(core, l) THEN AfterStop("guest") ELSE life
    /\ UNCHANGED now

Loop == \E rnd \in RandFor(core), g \in GarbageFor(core) : Looped(loop(core, now, rnd, g))

EnableHardwareTimers ==
    /\ core' = enable_hardware_timers(core)
    /\ UNCHANGED <<now, last, life>>

ResetDraw ==
    /\ core' = reset_draw(core)
    /\ UNCHANGED <<now, last, life>>

SetKeyState ==
    \E key \in Keys, is_pressed \in BOOLEAN :
        /\ core' = set_key_state(core, key, is_pressed)
        /\ UNCHANGED <<now, last, life>>

\* onTimer0: the CPU-tick interrupt, while timer0 is armed
OnTimer0 ==
    /\ core.timer0
    /\ core' = [core EXCEPT !.timer0_flag = TRUE]
    /\ UNCHANGED <<now, last, life>>

\* onTimer1: the 60 Hz interrupt, while timer1 is armed
OnTimer1 ==
    /\ core.timer1
    /\ core' = [core EXCEPT !.timer1_flag = TRUE]
    /\ UNCHANGED <<now, last, life>>

\* a millisecond passes
Tick ==
    /\ now < MaxTime
    /\ now' = now + 1
    /\ UNCHANGED <<core, last, life>>

Next ==
    \/ LoadRom
    \/ Start
    \/ Stop
    \/ Loop
    \/ EnableHardwareTimers
    \/ ResetDraw
    \/ SetKeyState
    \/ OnTimer0
    \/ OnTimer1
    \/ Tick

Spec == Init /\ [][Next]_vars

---------------------------------------------------------------------------
(* The front end: a main loop that only calls play_game, on guest programs *)
(* of ExecImages.                                                          *)

Played(p, rom_size) ==
    /\ core' = p.core
    /\ last' = Call("play_game", p.ret, rom_size, p.run)
    /\ life' = IF Halted(core, p.run) THEN AfterStop("guest")
               ELSE IF p.loaded
               THEN [life EXCEPT !.loaded = TRUE, !.started = life.started \/ p.started,
                                 !.by = "none"]
               ELSE life
    /\ UNCHANGED now

PlayGame ==
    \E rom \in ImagesFor(core, ExecImages), enable_hwt \in HwtFor(core),
       rnd \in RandFor(core), g \in GarbageFor(core) :
        Played(play_game(core, rom, rom.size, enable_hwt, now, rnd, g), rom.size)

NextExec ==
    \/ PlayGame
    \/ SetKeyState
    \/ OnTimer0
    \/ OnTimer1
    \/ Tick

SpecExec == Init /\ [][NextExec]_vars

---------------------------------------------------------------------------
(* Properties of the lifecycle, checked under Spec.                        *)

\* what a call that does nothing leaves alone: flags, registers, RAM,
\* framebuffer and dirty map
SameMachine ==
    /\ core'.flags = core.flags
    /\ core'.reg = core.reg
    /\ core'.RAM = core.RAM
    /\ core'.DISPLAYBUFFER = core.DISPLAYBUFFER
    /\ core'.dirty_flags = core.dirty_flags

\* C1: start() returns true exactly when ROM_LOADED is set and RUNNING is
\* clear in the state it is called in, and a start() that returns false
\* changes no flag, register, RAM byte, framebuffer byte or dirty cell.
C1_StartContract ==
    [][(last'.op = "start" /\ Start) =>
          /\ last'.ret = (flag_get(core, ROM_IS_LOADED) /\ ~flag_get(core, EMULATOR_STATE))
          /\ (~last'.ret => SameMachine)]_vars

\* start() was refused on a running core that has its ROM loaded
C1_Witness ==
    /\ last.op = "start"
    /\ ~last.ret
    /\ flag_get(core, EMULATOR_STATE)
    /\ flag_get(core, ROM_IS_LOADED)

\* C2: stop() returns true exactly when RUNNING is set in the state it is
\* called in; after a stop() that returned true the flags word is 0 and RAM
\* is what it was before the call; a stop() that returns false changes no
\* flag, register, RAM byte, framebuffer byte or dirty cell.
C2_StopContract ==
    [][(last'.op = "stop" /\ Stop) =>
          /\ last'.ret = flag_get(core, EMULATOR_STATE)
          /\ (last'.ret => core'.flags = 0 /\ core'.RAM = core.RAM)
          /\ (~last'.ret => SameMachine)]_vars

\* stop() succeeded on a core that had executed instructions, and left the
\* loaded image in RAM
C2_Witness ==
    /\ last.op = "stop"
    /\ last.ret
    /\ core.flags = 0
    /\ mem_at(core.RAM, ROM_BASE) # 0
    /\ core.reg.PC > ROM_BASE

\* C3: a start() that returns true comes after a load_rom that no stop
\* (by stop() or by the guest's 00FD) has followed, and no other successful
\* start() lies between that load_rom and this call.
C3_StartNeedsFreshLoad ==
    [][(last'.op = "start" /\ last'.ret /\ Start) => (life.loaded /\ ~life.started)]_vars

\* start() was refused after the guest halted with 00FD, the image still
\* in RAM
C3_Witness ==
    /\ last.op = "start"
    /\ ~last.ret
    /\ life.by = "guest"
    /\ ~life.loaded
    /\ mem_at(core.RAM, ROM_BASE + 1) = 253

ImageInRam(c) ==
    \E rom \in LifeImages :
        \A i \in 0 .. 7 : mem_at(c.RAM, ROM_BASE + i) = rom_byte(rom, i)

C5_AsStated ==
    (last.op = "load_rom" /\ last.size <= MaxRomSize) =>
        /\ flag_get(core, ROM_IS_LOADED)
        /\ \E rom \in LifeImages :
              /\ rom.size = last.size
              /\ \A a \in 0 .. RAM_SIZE - 1 :
                    mem_at(core.RAM, a) =
                        IF a >= FONT_BASE /\ a < FONT_BASE + FONT_WORDS
                        THEN FONTSET[a - FONT_BASE + 1]
                        ELSE IF a >= ROM_BASE /\ a < ROM_BASE + rom.size
                        THEN rom_byte(rom, a - ROM_BASE)
                        ELSE 0

\* C6 as stated: a load_rom of more than 3584 bytes writes nothing at or
\* beyond RAM index 4096 and does not set ROM_LOADED.
C6_AsStated ==
    [][(last'.op = "load_rom" /\ last'.size > MaxRomSize /\ LoadRom) =>
           /\ last'.hi < RAM_SIZE
           /\ (flag_get(core', ROM_IS_LOADED) => flag_get(core, ROM_IS_LOADED))]_vars

---------------------------------------------------------------------------
(* Properties of execute(), checked under SpecExec.                        *)

\* C7 as stated: SP stays in 0 .. 16 and no stack slot outside 0 .. 15 is
\* used, 00EE on an empty stack included.
C7_AsStated ==
    /\ core.reg.SP \in 0 .. STACK_DEPTH
    /\ last.stk < STACK_DEPTH

\* C8 as stated: after every execute() PC is in 0 .. 4095.
C8_AsStated == core.reg.PC \in 0 .. RAM_SIZE - 1

\* the instruction of the step is FX1E on register X
IsFX1E(opcode, X) == opcode = 61440 + 256 * X + 30

\* C9: I is in 0 .. 4095 in every state, and an FX1E executed with
\* I = 0xFFF and V[X] = 1 leaves I = 0 and VF = 1.
C9_IndexInRange ==
    /\ core.reg.INDEX \in 0 .. RAM_SIZE - 1
    /\ [][/\ core'.reg.INDEX \in 0 .. RAM_SIZE - 1
          /\ \A X \in 0 .. 15 :
                (/\ last'.exec = 1
                 /\ IsFX1E(last'.opcode, X)
                 /\ core'.reg.PC = core.reg.PC + 2
                 /\ core.reg.INDEX = RAM_SIZE - 1
                 /\ core.reg.V[X] = 1)
                => (core'.reg.INDEX = 0 /\ core'.reg.V[15] = 1)]_vars

\* F01E has just run with I = 0xFFF and V0 = 1: I wrapped to 0, VF is 1
C9_Witness ==
    /\ last.exec = 1
    /\ IsFX1E(last.opcode, 0)
    /\ core.reg.V[0] = 1
    /\ core.reg.INDEX = 0
    /\ core.reg.V[15] = 1
    /\ mem_at(core.RAM, ROM_BASE) = 175
    /\ mem_at(core.RAM, ROM_BASE + 1) = 255

\* C10 as stated: every RAM index that execute() reads or writes, the two
\* bytes of the fetch included, is in 0 .. 4095.
C10_AsStated == last.exec = 1 => last.hi < RAM_SIZE

---------------------------------------------------------------------------
(* Properties of instructions and of the timer service, checked under      *)
(* SpecExec.                                                               *)

\* an opcode outside the instruction table
Unlisted(opcode) ==
    LET op == opcode \div 4096
        NN == opcode % 256
        N == opcode % 16
    IN  \/ op = 0 /\ NN \notin {224, 238, 253}
        \/ op = 8 /\ N \notin (0 .. 7) \cup {14}
        \/ op = 14 /\ NN \notin {158, 161}
        \/ op = 15 /\ NN \notin {7, 10, 21, 24, 30, 41, 48, 51, 85, 101}

\* the step changes nothing of the machine but PC, which it advances by n
OnlyPcAdvances(n) ==
    /\ core'.reg = [core.reg EXCEPT !.PC = core.reg.PC + n]
    /\ core'.flags = core.flags
    /\ core'.RAM = core.RAM
    /\ core'.DISPLAYBUFFER = core.DISPLAYBUFFER
    /\ core'.dirty_flags = core.dirty_flags

\* C11 as stated: an opcode outside the instruction table advances PC by 2
\* and changes no register, RAM byte, framebuffer byte, dirty cell, timer
\* or flag (seen on calls whose timer service did not run).
C11_AsStated ==
    [][(last'.exec = 1 /\ last'.tick = 0 /\ Unlisted(last'.opcode) /\ PlayGame)
           => OnlyPcAdvances(2)]_vars

\* RAM holds the image 22 04 00 00 00 EE
CallReturnRom(c) ==
    /\ mem_at(c.RAM, ROM_BASE) = 34
    /\ mem_at(c.RAM, ROM_BASE + 1) = 4
    /\ mem_at(c.RAM, ROM_BASE + 2) = 0
    /\ mem_at(c.RAM, ROM_BASE + 3) = 0
    /\ mem_at(c.RAM, ROM_BASE + 4) = 0
    /\ mem_at(c.RAM, ROM_BASE + 5) = 238

\* C12 as stated: running 22 04 00 00 00 EE, the instruction at 0x200 leads
\* to 0x204, the one at 0x204 to 0x202, the one at 0x202 to 0x204, and SP
\* never exceeds 1.
C12_AsStated ==
    [][(last'.exec = 1 /\ CallReturnRom(core) /\ PlayGame) =>
           /\ core.reg.PC \in {ROM_BASE, ROM_BASE + 2, ROM_BASE + 4}
           /\ core.reg.PC = ROM_BASE => core'.reg.PC = ROM_BASE + 4
           /\ core.reg.PC = ROM_BASE + 4 => core'.reg.PC = ROM_BASE + 2
           /\ core.reg.PC = ROM_BASE + 2 => core'.reg.PC = ROM_BASE + 4
           /\ core'.reg.SP <= 1]_vars

\* the sound timer as the timer service of the step found it: what FX18 wrote
\* when the instruction of the same call was FX18, the register otherwise
SoundTimerAtService ==
    IF last'.exec = 1 /\ last'.opcode \div 4096 = 15 /\ last'.opcode % 256 = 24
    THEN core.reg.V[(last'.opcode \div 256) % 16]
    ELSE core.reg.SOUNDTIMER

\* C13 as stated: after a timer service SOUND is set iff SOUNDTIMER was > 0
\* when that service began, and the timer was then decremented by 1.
C13_AsStated ==
    [][(last'.tick = 1 /\ PlayGame) =>
           /\ flag_get(core', SOUND) = (SoundTimerAtService > 0)
           /\ core'.reg.SOUNDTIMER = Max(SoundTimerAtService - 1, 0)]_vars

---------------------------------------------------------------------------
(* Properties of loop() and of the two draw flags, checked under Spec.     *)

\* DXYN or 00E0
IsDraw(opcode) == opcode \div 4096 = 13 \/ opcode = 224

\* C14: need_to_draw() becomes true only in a loop() call whose timer
\* service ran and found the CPU's draw flag set (raised earlier, or by the
\* DXYN or 00E0 of the same call), and that service clears the CPU's flag;
\* a DXYN or 00E0 in a call without timer service sets the CPU's flag and
\* leaves need_to_draw() as it was.
C14_DrawOnlyAtService ==
    [][/\ (need_to_draw(core') /\ ~need_to_draw(core)) =>
              /\ Loop
              /\ last'.tick = 1
              /\ ~flag_get(core', CPU_CYCLE_DRAW_FLAG)
              /\ \/ flag_get(core, CPU_CYCLE_DRAW_FLAG)
                 \/ last'.exec = 1 /\ IsDraw(last'.opcode)
       /\ (/\ last'.op = "loop"
           /\ last'.exec = 1
           /\ last'.tick = 0
           /\ IsDraw(last'.opcode)
           /\ Loop) =>
              /\ flag_get(core', CPU_CYCLE_DRAW_FLAG)
              /\ need_to_draw(core') = need_to_draw(core)]_vars

\* a timer service without instruction has promoted the draw that an
\* earlier call raised
C14_Witness ==
    /\ last.op = "loop"
    /\ last.tick = 1
    /\ last.exec = 0
    /\ need_to_draw(core)
    /\ ~flag_get(core, CPU_CYCLE_DRAW_FLAG)
    /\ core.DISPLAYBUFFER[0] # 0

\* an instruction that goes on to the next word: 6XNN, 7XNN, ANNN, CXNN,
\* DXYN and the FX group without FX0A
GoesOn(opcode) ==
    \/ opcode \div 4096 \in {6, 7, 10, 12, 13}
    \/ opcode \div 4096 = 15 /\ opcode % 256 # 10

\* the delay timer as the timer service of the step found it
DelayTimerAtService ==
    IF last'.exec = 1 /\ last'.opcode \div 4096 = 15 /\ last'.opcode % 256 = 21
    THEN core.reg.V[(last'.opcode \div 256) % 16]
    ELSE core.reg.DELAYTIMER

\* C15: a loop() call entered with INITIALIZED clear changes nothing; any
\* other executes at most one instruction (PC is one instruction further)
\* and at most one timer service (each timer goes down by 1 at most), and
\* the service acts on what the instruction left: a timer written by FX15
\* or FX18 in the call is decremented by the service of the same call.
C15_OneInstructionThenService ==
    [][(last'.op = "loop" /\ Loop) =>
           /\ ~flag_get(core, INITIALIZED) =>
                  (core' = core /\ last'.exec = 0 /\ last'.tick = 0)
           /\ (last'.exec = 1 /\ GoesOn(last'.opcode)) =>
                  core'.reg.PC = core.reg.PC + 2
           /\ last'.exec = 0 => core'.reg.PC = core.reg.PC
           /\ last'.tick = 1 =>
                  /\ core'.reg.SOUNDTIMER = Max(SoundTimerAtService - 1, 0)
                  /\ core'.reg.DELAYTIMER = Max(DelayTimerAtService - 1, 0)
           /\ last'.tick = 0 =>
                  /\ core'.reg.SOUNDTIMER = SoundTimerAtService
                  /\ core'.reg.DELAYTIMER = DelayTimerAtService]_vars

\* one call has executed F018 with V0 = 2 and then served the timers
C15_Witness ==
    /\ last.op = "loop"
    /\ last.exec = 1
    /\ last.tick = 1
    /\ last.opcode = 61464
    /\ core.reg.V[0] = 2
    /\ core.reg.SOUNDTIMER = 1

---------------------------------------------------------------------------
(* The polled clock: a main loop that starts a guest program in polled     *)
(* mode and then calls loop() once in every millisecond.  The program sets *)
(* the delay timer to 60 and spins; the history counts the milliseconds    *)
(* and the timer services from the FX15 on.                                *)

\* 603C F015 1204
ClockImages == { Image(<<96, 60, 240, 21, 18, 4>>, <<>>, 6) }

\* the 1000 ms that are followed after the FX15: 62 polled service
\* intervals and 8 ms
Horizon == 62 * GPU_TIMER_INTERVAL + 8

\* a main loop held up for more than two service intervals
StallMs == 2 * GPU_TIMER_INTERVAL + 1

\* a millisecond passes before the main loop begins
ClockWait ==
    /\ ~life.loaded
    /\ now < MaxPhase \/ (now >= StallMs /\ now < StallMs + MaxPhase)
    /\ now' = now + 1
    /\ UNCHANGED <<core, last, life>>

\* the main loop is held up before it begins
ClockStall ==
    /\ ~life.loaded
    /\ now = 0
    /\ now' = StallMs
    /\ UNCHANGED <<core, last, life>>

\* the first play_game: load_rom and start, without hardware timers
ClockBoot ==
    /\ ~life.loaded
    /\ \E rom \in ClockImages :
          Played(play_game(core, rom, rom.size, FALSE, now, 0, Layout), rom.size)

\* FX15 ran in this call
SetsDelay(l) == l.exec = 1 /\ l.opcode \div 4096 = 15 /\ l.opcode % 256 = 21

\* the next millisecond, and the loop() call made in it
ClockLooped(l) ==
    /\ core' = l.core
    /\ last' = Call("loop", FALSE, 0, l)
    /\ life' = IF life.window >= 0
               THEN [life EXCEPT !.window = life.window + 1,
                                 !.services = life.services + l.tick]
               ELSE IF SetsDelay(l) THEN [life EXCEPT !.window = 0]
               ELSE life
    /\ now' = now + 1

MsLoop ==
    /\ is_running(core)
    /\ life.window < Horizon
    /\ ClockLooped(loop(core, now + 1, 0, Layout))

NextClock ==
    \/ ClockWait
    \/ ClockStall
    \/ ClockBoot
    \/ MsLoop

SpecClock == Init /\ [][NextClock]_vars

---------------------------------------------------------------------------
(* Properties of the polled clock, checked under SpecClock.                *)

\* C16: in polled mode a loop() call executes an instruction iff 2 ms or
\* more have passed since the last one, and serves the timers iff 16 ms or
\* more have passed since the last service; the call that does either
\* stamps it with the current time, and a call that does not leaves the
\* stamp alone.  So one call fires one tick of a kind however long the gap,
\* and two ticks of a kind are an interval apart at least.
C16_PolledTicks ==
    [][(last'.op = "loop" /\ MsLoop) =>
           /\ (last'.exec = 1) = (now' - core.last_CPU_cycle >= CPU_TIMER_INTERVAL)
           /\ (last'.tick = 1) = (now' - core.last_GPU_cycle >= GPU_TIMER_INTERVAL)
           /\ core'.last_CPU_cycle = IF last'.exec = 1 THEN now' ELSE core.last_CPU_cycle
           /\ core'.last_GPU_cycle = IF last'.tick = 1 THEN now' ELSE core.last_GPU_cycle
           /\ core'.reg.DELAYTIMER >= DelayTimerAtService - 1]_vars

\* the first loop() after a start made more than two service intervals late
\* has fired one tick of each kind and stamped both with the current time
C16_Witness ==
    /\ last.op = "loop"
    /\ last.exec = 1
    /\ last.tick = 1
    /\ core.reg.PC = ROM_BASE + 2
    /\ now > 2 * GPU_TIMER_INTERVAL
    /\ core.last_CPU_cycle = now
    /\ core.last_GPU_cycle = now

\* the delay timer goes down by one with each service and stops at 0; the
\* service of the call that ran the FX15 is not among those counted
DelayCountsDown ==
    life.window >= 0 =>
        core.reg.DELAYTIMER \in {Max(60 - life.services, 0), Max(59 - life.services, 0)}

\* C17 as stated: with DELAYTIMER set to 60 and loop() called once in each
\* of the next 1000 ms, between 58 and 62 timer services occur, DELAYTIMER
\* is 0 at the end and never wraps.
C17_AsStated ==
    /\ DelayCountsDown
    /\ life.window = Horizon =>
           (life.services \in 58 .. 62 /\ core.reg.DELAYTIMER = 0)

\* C17: with DELAYTIMER set to 60 and loop() called once in each of the
\* next 1000 ms, 62 or 63 timer services occur (one every 16 ms; 63 when
\* the first of them comes within 8 ms of the FX15), DELAYTIMER is 0 at the
\* end and never wraps.
C17_TimerServices ==
    /\ DelayCountsDown
    /\ life.window = Horizon =>
           (life.services \in 62 .. 63 /\ core.reg.DELAYTIMER = 0)

\* 1000 ms after the FX15, 63 services have run and the delay timer is 0
C17_Witness ==
    /\ life.window = Horizon
    /\ life.services = 63
    /\ core.reg.DELAYTIMER = 0

----------------------------------------------------------------------------
(* The core driven by the two timer interrupts: play_game starts it with    *)
(* hardware timers at some millisecond, then the ISRs and loop() interleave *)
(* freely.                                                                  *)

IsrImages ==
    { Image(<<0, 253>>, <<>>, 2),                      \* 00FD
      Image(<<96, 60, 240, 21, 0, 253>>, <<>>, 6),     \* 603C F015 00FD
      Image(<<96, 60, 240, 21, 18, 4>>, <<>>, 6) }     \* 603C F015 1204

IsrBoot ==
    /\ ~life.loaded
    /\ \E rom \in IsrImages :
           Played(play_game(core, rom, rom.size, TRUE, now, 0, Layout), rom.size)

NextIsr ==
    \/ ClockWait
    \/ ClockStall
    \/ IsrBoot
    \/ Loop
    \/ OnTimer0
    \/ OnTimer1

SpecIsr == Init /\ [][NextIsr]_vars

\* C19 as stated: a loop() call made in interrupt mode executes an
\* instruction iff the CPU latch was set since it was last cleared, and
\* leaves it clear; likewise it services the timers iff the 60 Hz latch was
\* set, and leaves it clear.  So neither instructions nor timer services
\* outnumber the firings of their ISR.
C19_AsStated ==
    [][(/\ last'.op = "loop"
        /\ is_running(core)
        /\ flag_get(core, HARDWARE_TIMERS)
        /\ Loop)
       => /\ last'.exec = 1 <=> core.timer0_flag
          /\ last'.exec = 1 => ~core'.timer0_flag
          /\ last'.tick = 1 <=> core.timer1_flag
          /\ last'.tick = 1 => ~core'.timer1_flag]_vars

----------------------------------------------------------------------------
(* stop() statement by statement, with the timer interrupts firing between *)
(* its statements.  life.stopping is the number of statements of ht_stop   *)
(* already done by a stop() in progress; the caller of stop() makes no     *)
(* other call meanwhile.                                                   *)

HostBoot == life.stopping = 0 /\ IsrBoot

HostLoop == life.stopping = 0 /\ Loop

\* onTimer1; life.raced records a firing during a stop() in progress
HostTimer1 ==
    /\ core.timer1
    /\ core' = [core EXCEPT !.timer1_flag = TRUE]
    /\ life' = [life EXCEPT !.raced = @ \/ life.stopping > 0]
    /\ UNCHANGED <<now, last>>

\* stop() on a running core enters ht_stop: timerEnd(timer0)
StopDisarm0 ==
    /\ life.stopping = 0
    /\ flag_get(core, EMULATOR_STATE)
    /\ core' = ht_stop_step(core, 0)
    /\ life' = [life EXCEPT !.stopping = 1, !.raced = FALSE]
    /\ UNCHANGED <<now, last>>

\* statements 1 and 2 of ht_stop
StopStep ==
    /\ life.stopping \in {1, 2}
    /\ core' = ht_stop_step(core, life.stopping)
    /\ life' = [life EXCEPT !.stopping = @ + 1]
    /\ UNCHANGED <<now, last>>

\* the last statement of ht_stop, then flag.clear_all() and return true
StopReturn ==
    /\ life.stopping = 3
    /\ core' = flag_clear_all(ht_stop_step(core, 3))
    /\ last' = Call("stop", TRUE, 0, Idle)
    /\ life' = [AfterStop("stop") EXCEPT !.stopping = 0]
    /\ UNCHANGED now

NextStop ==
    \/ HostBoot
    \/ HostLoop
    \/ OnTimer0
    \/ HostTimer1
    \/ StopDisarm0
    \/ StopStep
    \/ StopReturn

SpecStop == Init /\ [][NextStop]_vars

\* C20: stop() ends both hardware timers before it resets the two latches
\* (the latches are reset only once both timers are ended), and whenever no
\* stop() is in progress and a timer is not armed its latch is false,
\* however the ISRs interleaved with stop(): after a stop() that returned
\* true both timers are ended and both latches stay false until start()
\* arms the timers again.
C20_DisarmThenClear ==
    /\ life.stopping >= 2 => (~core.timer0 /\ ~core.timer1)
    /\ (life.stopping = 0 /\ ~core.timer0) => ~core.timer0_flag
    /\ (life.stopping = 0 /\ ~core.timer1) => ~core.timer1_flag
    /\ (last.op = "stop" /\ last.ret /\ ~life.loaded /\ life.stopping = 0) =>
           (~core.timer0 /\ ~core.timer1)

\* a stop() has returned true after the 60 Hz ISR fired between its
\* statements, and both latches are false
C20_Witness ==
    /\ last.op = "stop" /\ last.ret
    /\ life.stopping = 0 /\ life.raced /\ ~life.loaded
    /\ ~core.timer0 /\ ~core.timer1
    /\ ~core.timer0_flag /\ ~core.timer1_flag

----------------------------------------------------------------------------
\* Claim C18, checked under Spec.

\* C18 as stated: while the core is Running the HARDWARE_TIMERS flag that
\* loop() consults is set iff the two hardware timers are armed, so no
\* public call made while Running switches loop() to the other timing mode.
C18_AsStated ==
    is_running(core) =>
        (flag_get(core, HARDWARE_TIMERS) <=> (core.timer0 /\ core.timer1))

----------------------------------------------------------------------------
(* A guest waiting for the keypad: play_game starts it with hardware       *)
(* timers, the CPU-tick ISR and loop() interleave with key presses and     *)
(* releases.                                                               *)

\* keys of the pad handed to set_key_state, and an index off the pad
PadKeys == {3, 9, 16}

\* 6X05 FX0A 1200, for three registers
KeyImages == { Image(<<96 + X, 5, 240 + X, 10, 18, 0>>, <<>>, 6) : X \in {0, 5, 15} }

BootFrom(images) ==
    /\ ~life.loaded
    /\ \E rom \in images :
           Played(play_game(core, rom, rom.size, TRUE, now, 0, Layout), rom.size)

KeyBoot == BootFrom(KeyImages)

PressKey ==
    \E key \in PadKeys, is_pressed \in BOOLEAN :
        /\ core' = set_key_state(core, key, is_pressed)
        /\ UNCHANGED <<now, last, life>>

NextKeys ==
    \/ KeyBoot
    \/ Loop
    \/ OnTimer0
    \/ PressKey

SpecKeys == Init /\ [][NextKeys]_vars

IsFX0A(opcode) == opcode \div 4096 = 15 /\ opcode % 256 = 10

PressedKeys(c) == {k \in 0 .. NUM_KEYS - 1 : c.key_states[k] = 1}

Lowest(S) == CHOOSE k \in S : \A j \in S : k <= j

\* C21: an FX0A executed with no key pressed leaves PC and every register
\* as they were, each time it is executed; executed with at least one key
\* pressed it advances PC by 2, sets V[X] to the lowest pressed key and
\* leaves the other registers alone.
C21_WaitForKey ==
    [][(/\ last'.op = "loop"
        /\ last'.exec = 1
        /\ IsFX0A(last'.opcode)
        /\ Loop)
       => IF PressedKeys(core) = {}
          THEN core'.reg = core.reg
          ELSE core'.reg = [core.reg EXCEPT
                               !.PC = core.reg.PC + 2,
                               !.V[(last'.opcode \div 256) % 16] = Lowest(PressedKeys(core))]]_vars

\* an FX0A has just been executed with keys 3 and 9 both pressed: V5 is 3
C21_Witness ==
    /\ last.op = "loop" /\ last.exec = 1
    /\ last.opcode = 62730
    /\ PressedKeys(core) = {3, 9}
    /\ core.reg.V[5] = 3
    /\ core.reg.PC = ROM_BASE + 4

----------------------------------------------------------------------------
(* Guest programs that draw, add and save registers, run in interrupt     *)
(* mode: the CPU-tick ISR and loop() alternate.                            *)

\* 6X vx 6Y vy AIII DXYN DXYN 00E0 120C, then the sprite rows FF 81
DrawImage(X, Y, vx, vy, I, N) ==
    Image(<<96 + X, vx, 96 + Y, vy, 160 + I \div 256, I % 256,
            208 + X, Y * 16 + N, 208 + X, Y * 16 + N, 0, 224, 18, 12>>,
          <<255, 129>>, 16)

\* 6X a 6Y b 8XY4 1206
AddImage(X, Y, a, b) ==
    Image(<<96 + X, a, 96 + Y, b, 128 + X, Y * 16 + 4, 18, 6>>, <<>>, 8)

\* AIII 6012 6134 FX55 60FF 6100 FX65 120E
SaveImage(X, I) ==
    Image(<<160 + I \div 256, I % 256, 96, 18, 97, 52, 240 + X, 85,
            96, 255, 97, 0, 240 + X, 101, 18, 14>>, <<>>, 16)

GuestImages ==
    { DrawImage(XY[1], XY[2], vx, vy, I, N) :
        XY \in {<<0, 1>>, <<15, 1>>, <<2, 2>>}, vx \in {0, 60, 255}, vy \in {0, 31},
        I \in {ROM_BASE + 14, 768}, N \in {0, 2, 8} }
    \cup { AddImage(X, Y, ab[1], ab[2]) :
             X \in 0 .. 15, Y \in 0 .. 15, ab \in {<<255, 1>>, <<1, 2>>, <<128, 128>>} }
    \cup { SaveImage(X, I) : X \in {0, 1, 15}, I \in {768, 4080} }

GuestBoot == BootFrom(GuestImages)

IsDXYN(opcode) == opcode \div 4096 = 13

IsFX55(opcode) == opcode \div 4096 = 15 /\ opcode % 256 = 85

NoDraw == [opcode |-> 0, I |-> 0, V |-> <<>>, fb |-> <<>>]

\* history: the machine as the DXYN just executed found it (forgotten when
\* another instruction executes), and as the last FX55 found it
Noted(lf, c, l) ==
    IF l.exec = 0 THEN lf
    ELSE IF IsDXYN(l.opcode)
    THEN [lf EXCEPT !.drawn = [opcode |-> l.opcode, I |-> c.reg.INDEX,
                               V |-> c.reg.V, fb |-> c.DISPLAYBUFFER]]
    ELSE IF IsFX55(l.opcode)
    THEN [lf EXCEPT !.drawn = NoDraw,
                    !.stored = [opcode |-> l.opcode, I |-> c.reg.INDEX, V |-> c.reg.V]]
    ELSE [lf EXCEPT !.drawn = NoDraw]

GuestLooped(l) ==
    /\ core' = l.core
    /\ last' = Call("loop", FALSE, 0, l)
    /\ life' = Noted(IF Halted(core, l) THEN AfterStop("guest") ELSE life, core, l)
    /\ UNCHANGED now

GuestLoop ==
    \E rnd \in RandFor(core), g \in GarbageFor(core) :
        \E l \in {loop(core, now, rnd, g)} : GuestLooped(l)

NextGuest ==
    \/ GuestBoot
    \/ GuestLoop
    \/ OnTimer0

SpecGuest == Init /\ [][NextGuest]_vars

\* the DXYN about to execute repeats the DXYN executed just before it: same
\* opcode, same V[X], V[Y] and I, nothing executed in between
RepeatsDraw(opcode) ==
    /\ IsDXYN(opcode)
    /\ life.drawn.opcode = opcode
    /\ life.drawn.I = core.reg.INDEX
    /\ life.drawn.V[(opcode \div 256) % 16] = core.reg.V[(opcode \div 256) % 16]
    /\ life.drawn.V[(opcode \div 16) % 16] = core.reg.V[(opcode \div 16) % 16]

\* the sprite RAM[I .. I + N - 1] has a bit set
SpriteHasPixel(c, opcode) ==
    \E yline \in 0 .. (opcode % 16) - 1 : mem_at(c.RAM, c.reg.INDEX + yline) # 0

SpritePixels(c, VX, VY, N) ==
    { ((VX + col) % 64) + 64 * ((VY + row) % 32) :
        <<row, col>> \in { rc \in (0 .. N - 1) \X (0 .. 7) :
                            Bit(mem_at(c.RAM, c.reg.INDEX + rc[1]), 7 - rc[2]) = 1 } }

\* pixel x + 64y is bit 7 - ((x + 64y) & 7) of framebuffer byte (x + 64y) >> 3
PixelAt(fb, bit_index) == Bit(fb[bit_index \div 8], 7 - (bit_index % 8))

\* fb2 is fb with exactly the pixels of T toggled
ToggledBy(fb, fb2, T) ==
    \A bit_index \in 0 .. 8 * FB_SIZE - 1 :
        PixelAt(fb2, bit_index) =
            (PixelAt(fb, bit_index) + (IF bit_index \in T THEN 1 ELSE 0)) % 2

\* C23: DXYN XORs bit col (MSB first) of sprite row `row` into the pixel
\* x = (V[X] + col) mod 64, y = (V[Y] + row) mod 32, kept at bit
\* 7 - ((x + 64y) & 7) of framebuffer byte (x + 64y) >> 3, and changes no
\* other pixel; a row at V[X] = 60 wraps its last four columns to x = 0..3.
C23_SpriteMapping ==
    [][(/\ last'.op = "loop"
        /\ last'.exec = 1
        /\ IsDXYN(last'.opcode)
        /\ GuestLoop)
       => ToggledBy(core.DISPLAYBUFFER, core'.DISPLAYBUFFER,
                    SpritePixels(core, core.reg.V[(last'.opcode \div 256) % 16],
                                 core.reg.V[(last'.opcode \div 16) % 16],
                                 last'.opcode % 16))]_vars

\* the sprite FF 81 has just been drawn at (60, 0): row 0 lights x = 60..63
\* and x = 0..3 of line 0, row 1 lights x = 60 and x = 3 of line 1
C23_Witness ==
    /\ last.op = "loop" /\ last.exec = 1 /\ IsDXYN(last.opcode)
    /\ core.reg.PC = ROM_BASE + 8
    /\ core.reg.V[0] = 60 /\ core.reg.V[1] = 0
    /\ core.DISPLAYBUFFER[7] = 15 /\ core.DISPLAYBUFFER[0] = 240
    /\ core.DISPLAYBUFFER[15] = 8 /\ core.DISPLAYBUFFER[8] = 16

\* C24: after 00E0, whatever was drawn before, the 256 framebuffer bytes
\* are 0, the 256 dirty cells are 1, the CPU's draw flag is set and PC has
\* advanced by 2; the framebuffer is the one 00E0 leaves on a freshly
\* initialized core.
C24_ClearScreen ==
    [][(/\ last'.op = "loop"
        /\ last'.exec = 1
        /\ last'.opcode = 224
        /\ GuestLoop)
       => /\ \A b \in 0 .. FB_SIZE - 1 : core'.DISPLAYBUFFER[b] = 0
          /\ \A y \in 0 .. 31 : \A x \in 0 .. 7 : core'.dirty_flags[y][x] = 1
          /\ flag_get(core', CPU_CYCLE_DRAW_FLAG)
          /\ core'.reg.PC = core.reg.PC + 2
          /\ core'.DISPLAYBUFFER =
                 exec_0(initialize(core), 224, Layout).core.DISPLAYBUFFER]_vars

\* 00E0 has just run after 6F3C 6100 A20E DF12 DF12, whose two draws (at
\* x = 60, then at x = VF = 0) left pixels lit: the framebuffer is zero
C24_Witness ==
    /\ last.op = "loop" /\ last.exec = 1 /\ last.opcode = 224
    /\ core.reg.PC = ROM_BASE + 12
    /\ mem_at(core.RAM, ROM_BASE) = 111 /\ mem_at(core.RAM, ROM_BASE + 1) = 60
    /\ mem_at(core.RAM, ROM_BASE + 7) = 18
    /\ core.reg.INDEX = ROM_BASE + 14
    /\ \A b \in 0 .. FB_SIZE - 1 : core.DISPLAYBUFFER[b] = 0
    /\ flag_get(core, CPU_CYCLE_DRAW_FLAG)

IsFX65(opcode) == opcode \div 4096 = 15 /\ opcode % 256 = 101

\* C25: an FX65 that follows an FX55 with the same X and the same I gives
\* V[0..X] the values the FX55 stored, whatever the registers were set to
\* in between, and neither instruction changes I.
C25_SaveRestore ==
    [][(/\ last'.op = "loop"
        /\ last'.exec = 1
        /\ IsFX55(last'.opcode) \/ IsFX65(last'.opcode)
        /\ GuestLoop)
       => /\ core'.reg.INDEX = core.reg.INDEX
          /\ (/\ IsFX65(last'.opcode)
              /\ IsFX55(life.stored.opcode)
              /\ (life.stored.opcode \div 256) % 16 = (last'.opcode \div 256) % 16
              /\ life.stored.I = core.reg.INDEX)
             => \A r \in 0 .. (last'.opcode \div 256) % 16 :
                    core'.reg.V[r] = life.stored.V[r]]_vars

\* F165 has just brought back V0 = 0x12 and V1 = 0x34, saved by F155 at
\* I = 0xFF0 before 60FF 6100 overwrote them
C25_Witness ==
    /\ last.op = "loop" /\ last.exec = 1 /\ last.opcode = 61797
    /\ life.stored.opcode = 61781
    /\ core.reg.INDEX = 4080
    /\ core.reg.V[0] = 18 /\ core.reg.V[1] = 52
    /\ core.reg.PC = ROM_BASE + 14

Is8XY4(opcode) == opcode \div 4096 = 8 /\ opcode % 16 = 4

\* V[X] + V[Y] for the X and Y of the opcode, before the instruction
SumXY(c, opcode) == c.reg.V[(opcode \div 256) % 16] + c.reg.V[(opcode \div 16) % 16]

\* C26 as stated: after 8XY4, for every X and Y, VF is 1 if V[X] + V[Y]
\* exceeded 0xFF and 0 otherwise, also when X = F, and for X other than F
\* V[X] is the sum modulo 256 (60FF 6101 8014 ends with V0 = 0, VF = 1).
C26_AsStated ==
    [][(/\ last'.op = "loop"
        /\ last'.exec = 1
        /\ Is8XY4(last'.opcode)
        /\ GuestLoop)
       => /\ core'.reg.V[15] = IF SumXY(core, last'.opcode) > 255 THEN 1 ELSE 0
          /\ (last'.opcode \div 256) % 16 # 15 =>
                 core'.reg.V[(last'.opcode \div 256) % 16] =
                     SumXY(core, last'.opcode) % 256]_vars

----------------------------------------------------------------------------
\* Claims C27 and C28: the guest's halt.

\* C27 as stated: play_game returns true exactly when the emulator is
\* running at the return of the call, and so returns false from the call
\* whose loop() executes the guest's 00FD.
C27_AsStated ==
    last.op = "play_game" => (last.ret <=> is_running(core))

\* C28 as stated: the loop() call in which the guest executes 00FD returns
\* with every flag clear and with the delay and sound timers as they were
\* at the stop, and a loop() call on a core that is not running changes
\* neither: no instruction and no timer service acts once a stop has taken
\* effect.
C28_AsStated ==
    [][(/\ last'.op = "loop"
        /\ Halted(core, last') \/ ~is_running(core)
        /\ Loop)
       => /\ core'.flags = 0
          /\ core'.reg.DELAYTIMER = core.reg.DELAYTIMER
          /\ core'.reg.SOUNDTIMER = core.reg.SOUNDTIMER]_vars

----------------------------------------------------------------------------
(* The core with its display back end (ssd1306oled): a guest that draws,   *)
(* the two ISRs, loop(), and draw() consuming the dirty map.               *)

OledImages ==
    { DrawImage(0, 1, 60, 31, ROM_BASE + 14, 2),
      \* 00E0 AFFF 6012 6134 F155 120A: saves V0, V1 at 0xFFF
      Image(<<0, 224, 175, 255, 96, 18, 97, 52, 241, 85, 18, 10>>, <<>>, 12),
      \* 6002 F018 00E0 00FD
      Image(<<96, 2, 240, 24, 0, 224, 0, 253>>, <<>>, 8) }

OledBoot == BootFrom(OledImages)

\* ssd1306oled::draw_oled: every dirty cell is pushed to the panel and cleared
draw_oled(c) == [c EXCEPT !.dirty_flags = [y \in 0 .. 31 |-> [x \in 0 .. 7 |-> 0]]]

\* ssd1306oled::draw
oled_draw(c) == IF need_to_draw(c) THEN reset_draw(draw_oled(c)) ELSE c

OledDraw ==
    /\ core' = oled_draw(core)
    /\ last' = Call("draw", need_to_draw(core), 0, Idle)
    /\ UNCHANGED <<now, life>>

NextOled ==
    \/ OledBoot
    \/ GuestLoop
    \/ OnTimer0
    \/ OnTimer1
    \/ OledDraw

SpecOled == Init /\ [][NextOled]_vars

\* C29 as stated: no step of the core (execute, timer service, start, stop)
\* takes a dirty cell from 1 to 0, and a framebuffer byte that changes has
\* its cell dirty[y][x/8] at 1 afterwards, so that a cell at 0 has its 8
\* pixels as they were when draw_oled last cleared it.
C29_AsStated ==
    [][(last'.op # "draw")
       => \A y \in 0 .. 31 : \A x \in 0 .. 7 :
            /\ core.dirty_flags[y][x] = 1 => core'.dirty_flags[y][x] = 1
            /\ core'.dirty_flags[y][x] = 0 =>
                   core'.DISPLAYBUFFER[8 * y + x] = core.DISPLAYBUFFER[8 * y + x]]_vars

----------------------------------------------------------------------------
(* The main loop running for ever.  play_game starts a guest at power-on   *)
(* in either timing mode.  In interrupt mode the two ISRs and loop()       *)
(* interleave and each of them keeps occurring; in polled mode loop() is   *)
(* called once in each millisecond, for MaxClock milliseconds.             *)

FairBoot ==
    /\ ~life.loaded
    /\ now = 0
    /\ \E rom \in OledImages, enable_hwt \in BOOLEAN :
           Played(play_game(core, rom, rom.size, enable_hwt, now, 0, Layout), rom.size)

LatchedLoop == flag_get(core, HARDWARE_TIMERS) /\ GuestLoop

ClockedLoop ==
    /\ life.loaded
    /\ ~flag_get(core, HARDWARE_TIMERS)
    /\ now < MaxClock
    /\ \E g \in GarbageFor(core) :
           \E l \in {loop(core, now + 1, 0, g)} :
               /\ core' = l.core
               /\ last' = Call("loop", FALSE, 0, l)
               /\ life' = IF Halted(core, l) THEN AfterStop("guest") ELSE life
               /\ now' = now + 1

NextFair ==
    \/ FairBoot
    \/ LatchedLoop
    \/ ClockedLoop
    \/ OnTimer0
    \/ OnTimer1
    \/ OledDraw

\* The timers fire for as long as they are armed.  The sketch calls loop()
\* for ever: weak fairness of LatchedLoop means that a latched tick does not
\* stay latched (the call that finds it consumes it), weak fairness of
\* ClockedLoop that the clock reaches MaxClock; the two conditions are
\* written as these consequences, which are all that is assumed of loop().
SpecFair ==
    /\ Init /\ [][NextFair]_vars
    /\ WF_vars(OnTimer0) /\ WF_vars(OnTimer1)
    /\ []<>~(/\ flag_get(core, HARDWARE_TIMERS)
             /\ is_init_and_ready(core)
             /\ (core.timer0_flag \/ core.timer1_flag))
    /\ []<>~(/\ life.loaded
             /\ ~flag_get(core, HARDWARE_TIMERS)
             /\ now < MaxClock)

\* a draw is raised and not yet promoted, on a running core
DrawRaised ==
    /\ is_running(core)
    /\ \/ flag_get(core, CPU_CYCLE_DRAW_FLAG)
       \/ last.op = "loop" /\ last.exec = 1 /\ IsDraw(last.opcode)

\* C30: once DXYN or 00E0 has executed on a core that keeps running, with
\* loop() called again and again and the 60 Hz tick recurring (timer 1 in
\* interrupt mode, 16 ms of the clock in polled mode), need_to_draw()
\* becomes true, unless the core is stopped first; and need_to_draw() goes
\* from true to false only by reset_draw() or by a stop.
C30_DrawReachesDisplay ==
    /\ DrawRaised ~> (need_to_draw(core) \/ ~is_running(core))
    /\ [][(need_to_draw(core) /\ ~need_to_draw(core'))
          => (last'.op = "draw" \/ ~is_running(core'))]_vars

\* in polled mode the service at 16 ms has promoted the draws of the guest
C30_Witness ==
    /\ is_running(core)
    /\ ~flag_get(core, HARDWARE_TIMERS)
    /\ last.op = "loop" /\ last.tick = 1
    /\ now = GPU_TIMER_INTERVAL
    /\ need_to_draw(core)
    /\ ~flag_get(core, CPU_CYCLE_DRAW_FLAG)

----------------------------------------------------------------------------
(* The public operations with images that load_rom copies past RAM as far  *)
(* as the flags word: load_rom takes any rom_size.                         *)

\* a short program that draws and beeps, and images of 4178 bytes whose last
\* two bytes, a flag bit and 0, are the ones copied onto the flags word
SpillImages ==
    { Image(<<96, 2, 240, 24, 208, 1, 18, 6>>, <<>>, 8) }      \* 6002 F018 D001 1206
    \cup { Image(<<0, 253>>, <<Pow2(bit), 0>>, MaxRomSize + FLAG_OFFSET + 2) :
               bit \in {EMULATOR_STATE, INITIALIZED} }

NextSpill ==
    \/ LoadRomFrom(SpillImages)
    \/ Start
    \/ Stop
    \/ Loop
    \/ EnableHardwareTimers
    \/ ResetDraw
    \/ SetKeyState
    \/ OnTimer0
    \/ OnTimer1
    \/ Tick

SpecSpill == Init /\ [][NextSpill]_vars

\* C31 as stated: at the return of every public operation, in any sequence
\* of calls, INITIALIZED is set iff RUNNING is set, and RUNNING implies
\* ROM_LOADED.
C31_AsStated ==
    /\ flag_get(core, INITIALIZED) <=> flag_get(core, EMULATOR_STATE)
    /\ flag_get(core, EMULATOR_STATE) => flag_get(core, ROM_IS_LOADED)

============================================================================
